---- MODULE Spec2Model ----
(***************************************************************************)
(* Model of gret's mesh retargeting operator, GRET_OT_retarget_mesh        *)
(* (mesh/retarget.py).  One invocation of execute() is followed statement  *)
(* group by statement group.  A sampled point is identified by the index   *)
(* of the vertex it was read from; floating point quantities (the kernel   *)
(* scales) are kept in thousandths.                                        *)
(***************************************************************************)
EXTENDS Integers, Sequences, FiniteSets, TLC

VARIABLES pc, result, report,
          dst_is_shape_key, num_vertices, num_dst_vertices,
          only_selection, select,
          high_quality, mask, num_masked, stride,
          function, radius, rbf_kernel, scale,
          src_pts, dst_pts, weights,
          objs, as_shape_key, shape_keys, written,
          mesh_pts, new_mesh_pts, calls

vars == <<pc, result, report, dst_is_shape_key, num_vertices, num_dst_vertices,
          only_selection, select,
          high_quality, mask, num_masked, stride, function, radius, rbf_kernel,
          scale, src_pts, dst_pts, weights, objs, as_shape_key, shape_keys,
          written, mesh_pts, new_mesh_pts, calls>>

(***************************************************************************)
(* Bounds of the explored inputs.                                          *)
(***************************************************************************)
MaxSmallVerts == 2
MaxSel == 2
MaxRadius == 1

(***************************************************************************)
(* Program constants.                                                      *)
(***************************************************************************)
NormalCap == 1000
HighQualityCap == 5000

\* Vertex counts tried: the small meshes, and the sizes around the caps where
\* the stride changes.
VertexCounts ==
    (0..MaxSmallVerts)
        \cup {NormalCap, NormalCap + 1, 2 * NormalCap + 3, HighQualityCap + 1}

\* Vertex selections of a mesh with n vertices: every selection of a small
\* mesh; none, all, the even and the odd indices of a large one.
Selections(n) ==
    IF n <= MaxSmallVerts
    THEN SUBSET (0..(n - 1))
    ELSE { {}, 0..(n - 1),
           {i \in 0..(n - 1) : i % 2 = 0},
           {i \in 0..(n - 1) : i % 2 = 1} }

\* The operator's enum of kernels, and an identifier outside it.
KnownFunctions == {"LINEAR", "GAUSSIAN", "PLATE", "BIHARMONIC", "INV_BIHARMONIC", "C2"}
Functions == KnownFunctions \cup {"UNKNOWN"}
RadiusValues == 1..MaxRadius

(***************************************************************************)
(* The scene: the source and destination objects, three more meshes and a  *)
(* camera, and a linked duplicate of "dst": an object of its own, with its  *)
(* own world matrix, whose data is the mesh of "dst".  "t3" has a zero     *)
(* scale, so its world matrix has no inverse.                              *)
(***************************************************************************)
Objects == {"src", "dst", "t1", "t2", "t3", "cam", "dst_linked"}
ObjType(o) == IF o = "cam" THEN "CAMERA" ELSE "MESH"
MatrixInvertible(o) == o # "t3"

\* obj.data: the datablock of an object, named after its first user.
Data(o) == IF o = "dst_linked" THEN "dst" ELSE o
Datablocks == {Data(o) : o \in Objects}

\* obj.data.shape_keys.key_blocks before the run.
InitialShapeKeys(m) == IF m = "t2" THEN <<"Basis", "Smile">> ELSE <<>>

Range(seq) == {seq[i] : i \in 1..Len(seq)}

NoMask == [on |-> FALSE, sel |-> {}]

(***************************************************************************)
(* Pure parts of execute().                                                *)
(***************************************************************************)
\* ceil(a / b) of math.ceil over a true division, for b > 0.
Ceil(a, b) == (a + b - 1) \div b

\* line 88: the destination object is the source object when the destination
\* names a shape key.
DstObj(is_shape_key) == IF is_shape_key THEN "src" ELSE "dst"

\* line 95
NoVertices(nv) == nv = 0

\* line 98
TopologyMismatchAlwaysEqual(nv, nd) == FALSE
TopologyMismatch(nv, nd) == nv # nd

\* line 105
VertexCap(hq) == IF hq THEN HighQualityCap ELSE NormalCap

\* line 106: the mask is the source's selection flags, or None.
Mask(os, sel) == IF os THEN [on |-> TRUE, sel |-> sel] ELSE NoMask

\* line 107: a non-empty list is true, whatever it holds.
NumMaskedIgnoringMask(m, nv) == nv
NumMasked(m, nv) == IF m.on /\ nv > 0 THEN Cardinality(m.sel) ELSE nv

\* line 108
Stride(nm, cap) == Ceil(nm, cap)

\* line 109
NoneMasked(nm) == nm = 0

\* lines 9-16 and 114: kernel and scale (in thousandths) of a function id.
\* dict.get falls back to the linear kernel.
rbf_kernels_get_gaussian_scale_one(f) ==
    CASE f = "LINEAR" -> <<"linear", 1000>>
      [] f = "GAUSSIAN" -> <<"gaussian", 1000>>
      [] f = "PLATE" -> <<"thin_plate", 1>>
      [] f = "BIHARMONIC" -> <<"multi_quadratic_biharmonic", 10>>
      [] f = "INV_BIHARMONIC" -> <<"inv_multi_quadratic_biharmonic", 10>>
      [] f = "C2" -> <<"beckert_wendland_c2_basis", 1000>>
      [] OTHER -> <<"linear", 1000>>
rbf_kernels_get(f) ==
    CASE f = "LINEAR" -> <<"linear", 1000>>
      [] f = "GAUSSIAN" -> <<"gaussian", 10>>
      [] f = "PLATE" -> <<"thin_plate", 1>>
      [] f = "BIHARMONIC" -> <<"multi_quadratic_biharmonic", 10>>
      [] f = "INV_BIHARMONIC" -> <<"inv_multi_quadratic_biharmonic", 10>>
      [] f = "C2" -> <<"beckert_wendland_c2_basis", 1000>>
      [] OTHER -> <<"linear", 1000>>

\* lines 118 and 133: self.radius * scale, in thousandths.
EffectiveRadius(r, s) == r * s

\* rbf.get_mesh_points(mesh, mask=m, stride=st) on a mesh of nv vertices:
\* the indices 0, st, 2 st, ... below nv whose mask entry is true, ascending.
get_mesh_points(nv, m, st) ==
    LET every == [k \in 1..Ceil(nv, st) |-> (k - 1) * st]
        Keep(i) == (~m.on) \/ (i \in m.sel)
    IN SelectSeq(every, Keep)

\* line 115
SampleSrc(nv, m, st) == get_mesh_points(nv, m, st)

\* line 116: the destination mesh, or the shape key's data, has nd entries.
SampleDstUnmasked(nd, m, st) == get_mesh_points(nd, NoMask, st)
SampleDst(nd, m, st) == get_mesh_points(nd, m, st)

\* line 125
IsTarget(o, is_shape_key) ==
    ~(ObjType(o) # "MESH" \/ o = "src" \/ o = DstObj(is_shape_key))

\* lines 147-149
RetargetKeyName(is_shape_key) ==
    IF is_shape_key THEN "Retarget_src_Key" ELSE "Retarget_dst"

(***************************************************************************)
(* Initial state: execute() has been entered and has read nothing yet.     *)
(* Every input is drawn where execute() first uses it.                     *)
(***************************************************************************)
Fresh ==
    /\ result = "NONE"
    /\ report = "NONE"
    /\ dst_is_shape_key = FALSE
    /\ num_vertices = 0
    /\ num_dst_vertices = 0
    /\ only_selection = FALSE
    /\ select = {}
    /\ high_quality = FALSE
    /\ mask = NoMask
    /\ num_masked = 0
    /\ stride = 0
    /\ function = "NONE"
    /\ radius = 0
    /\ rbf_kernel = "NONE"
    /\ scale = 0
    /\ src_pts = <<>>
    /\ dst_pts = <<>>
    /\ weights = <<"none">>
    /\ objs = <<>>
    /\ as_shape_key = FALSE
    /\ shape_keys = [m \in Datablocks |-> InitialShapeKeys(m)]
    /\ written = [m \in Datablocks |-> <<>>]
    /\ mesh_pts = <<>>
    /\ new_mesh_pts = <<>>
    /\ calls = [get_mesh_points |-> 0, get_weight_matrix |-> 0,
                get_distance_matrix |-> 0]

Init == pc = "enter" /\ Fresh

\* lines 86-94: the operator's source and destination, the two meshes with
\* their vertex counts, and the selection flags of the source's vertices
\* (left unread when only_selection is off).
Resolve ==
    /\ pc = "enter"
    /\ \E sk \in BOOLEAN, nv \in VertexCounts, nd \in VertexCounts :
          /\ sk => nd = nv
          /\ nd \in {nv - 1, nv, nv + 1} \/ nv = 0 \/ nd = 0
          /\ dst_is_shape_key' = sk
          /\ num_vertices' = nv
          /\ num_dst_vertices' = nd
          /\ \E os \in BOOLEAN :
                /\ only_selection' = os
                /\ select' \in (IF os THEN Selections(nv) ELSE {{}})
    /\ pc' = "check"
    /\ UNCHANGED <<result, report, high_quality, mask, num_masked, stride,
                   function, radius, rbf_kernel, scale, src_pts, dst_pts,
                   weights, objs, as_shape_key, shape_keys, written,
                   mesh_pts, new_mesh_pts, calls>>

\* lines 95-97
FailNoVertices ==
    /\ pc = "check"
    /\ NoVertices(num_vertices)
    /\ report' = "Source mesh has no vertices."
    /\ result' = "CANCELLED"
    /\ pc' = "done"
    /\ UNCHANGED <<dst_is_shape_key, num_vertices, num_dst_vertices,
                   only_selection, select,
                   high_quality, mask, num_masked, stride, function, radius,
                   rbf_kernel, scale, src_pts, dst_pts, weights, objs,
                   as_shape_key, shape_keys, written,
                   mesh_pts, new_mesh_pts, calls>>

\* lines 98-100
FailTopology ==
    /\ pc = "check"
    /\ ~NoVertices(num_vertices)
    /\ TopologyMismatch(num_vertices, num_dst_vertices)
    /\ report' = "Source and destination meshes must have equal number of vertices."
    /\ result' = "CANCELLED"
    /\ pc' = "done"
    /\ UNCHANGED <<dst_is_shape_key, num_vertices, num_dst_vertices,
                   only_selection, select,
                   high_quality, mask, num_masked, stride, function, radius,
                   rbf_kernel, scale, src_pts, dst_pts, weights, objs,
                   as_shape_key, shape_keys, written,
                   mesh_pts, new_mesh_pts, calls>>

\* lines 105-108: the cap, the mask over the source's vertices, the stride.
ComputeStride ==
    /\ pc = "check"
    /\ ~NoVertices(num_vertices)
    /\ ~TopologyMismatch(num_vertices, num_dst_vertices)
    /\ \E hq \in BOOLEAN :
          LET m == Mask(only_selection, select)
              nm == NumMasked(m, num_vertices)
          IN /\ high_quality' = hq
             /\ mask' = m
             /\ num_masked' = nm
             /\ stride' = Stride(nm, VertexCap(hq))
    /\ pc' = "masked"
    /\ UNCHANGED <<result, report, dst_is_shape_key, num_vertices,
                   num_dst_vertices, only_selection, select, function, radius,
                   rbf_kernel, scale, src_pts, dst_pts, weights, objs,
                   as_shape_key, shape_keys, written, mesh_pts, new_mesh_pts,
                   calls>>

\* lines 109-111
FailNoSelection ==
    /\ pc = "masked"
    /\ NoneMasked(num_masked)
    /\ report' = "Source mesh has no vertices selected."
    /\ result' = "CANCELLED"
    /\ pc' = "done"
    /\ UNCHANGED <<dst_is_shape_key, num_vertices, num_dst_vertices,
                   only_selection, select,
                   high_quality, mask, num_masked, stride, function, radius,
                   rbf_kernel, scale, src_pts, dst_pts, weights, objs,
                   as_shape_key, shape_keys, written,
                   mesh_pts, new_mesh_pts, calls>>

\* lines 114-116: the kernel of the function id, then both point sets.
\* range() raises on a zero step; the stride is at least 1 here in the
\* program, since num_masked >= 1.
SamplePoints ==
    /\ pc = "masked"
    /\ ~NoneMasked(num_masked)
    /\ stride >= 1
    /\ \E f \in Functions, r \in RadiusValues :
          /\ function' = f
          /\ radius' = r
          /\ rbf_kernel' = rbf_kernels_get(f)[1]
          /\ scale' = rbf_kernels_get(f)[2]
    /\ src_pts' = SampleSrc(num_vertices, mask, stride)
    /\ dst_pts' = SampleDst(num_dst_vertices, mask, stride)
    /\ calls' = [calls EXCEPT !.get_mesh_points = @ + 2]
    /\ pc' = "solve"
    /\ UNCHANGED <<result, report, dst_is_shape_key, num_vertices,
                   num_dst_vertices, only_selection, select, high_quality, mask, num_masked, stride,
                   weights, objs, as_shape_key, shape_keys, written,
                   mesh_pts, new_mesh_pts>>

\* lines 117-118 and 124: the solve succeeds; the loop over the selected
\* objects begins.
SolveOk ==
    /\ pc = "solve"
    /\ weights' = <<"solved", rbf_kernel, EffectiveRadius(radius, scale)>>
    /\ calls' = [calls EXCEPT !.get_weight_matrix = @ + 1]
    /\ objs' = <<>>
    /\ as_shape_key' \in BOOLEAN
    /\ pc' = "loop"
    /\ UNCHANGED <<result, report, dst_is_shape_key, num_vertices,
                   num_dst_vertices, only_selection, select, high_quality, mask, num_masked, stride,
                   function, radius, rbf_kernel, scale, src_pts, dst_pts,
                   shape_keys, written,
                   mesh_pts, new_mesh_pts>>

\* SolveFails without its return: the error is reported and the loop runs
\* with weights standing in for the solution.
SolveFailsContinues ==
    /\ pc = "solve"
    /\ calls' = [calls EXCEPT !.get_weight_matrix = @ + 1]
    /\ report' = "Failed to retarget. Try a different function or radius."
    /\ weights' = <<"identity">>
    /\ objs' = <<>>
    /\ as_shape_key' \in BOOLEAN
    /\ pc' = "loop"
    /\ UNCHANGED <<result, dst_is_shape_key, num_vertices, num_dst_vertices,
                   only_selection, select, high_quality, mask, num_masked,
                   stride, function, radius, rbf_kernel, scale, src_pts,
                   dst_pts, shape_keys, written, mesh_pts, new_mesh_pts>>

\* lines 117-122: numpy raises LinAlgError.
SolveFails ==
    /\ pc = "solve"
    /\ calls' = [calls EXCEPT !.get_weight_matrix = @ + 1]
    /\ report' = "Failed to retarget. Try a different function or radius."
    /\ result' = "CANCELLED"
    /\ pc' = "done"
    /\ UNCHANGED <<dst_is_shape_key, num_vertices, num_dst_vertices,
                   only_selection, select,
                   high_quality, mask, num_masked, stride, function, radius,
                   rbf_kernel, scale, src_pts, dst_pts, weights, objs,
                   as_shape_key, shape_keys, written,
                   mesh_pts, new_mesh_pts>>

\* line 124: the selected objects come one by one, each once; objs holds
\* those the loop has reached.  poll() requires a selection, so there is a
\* first one.
NextObjects == IF Len(objs) < MaxSel THEN Objects \ Range(objs) ELSE {}

\* lines 125-126
SkipObject ==
    /\ pc = "loop"
    /\ \E o \in NextObjects :
          /\ ~IsTarget(o, dst_is_shape_key)
          /\ objs' = Append(objs, o)
    /\ UNCHANGED <<pc, result, report, dst_is_shape_key, num_vertices,
                   num_dst_vertices, only_selection, select, high_quality,
                   mask, num_masked, stride, function, radius, rbf_kernel,
                   scale, src_pts, dst_pts, weights, as_shape_key, shape_keys,
                   written, mesh_pts, new_mesh_pts, calls>>

\* line 128: Matrix.inverted() raises ValueError on a matrix without inverse;
\* execute() does not catch it.
InvertRaises ==
    /\ pc = "loop"
    /\ \E o \in NextObjects :
          /\ IsTarget(o, dst_is_shape_key)
          /\ ~MatrixInvertible(o)
          /\ objs' = Append(objs, o)
    /\ result' = "EXCEPTION"
    /\ pc' = "done"
    /\ UNCHANGED <<report, dst_is_shape_key, num_vertices, num_dst_vertices,
                   only_selection, select, high_quality, mask, num_masked,
                   stride, function, radius, rbf_kernel, scale, src_pts,
                   dst_pts, weights, as_shape_key, shape_keys, written,
                   mesh_pts, new_mesh_pts, calls>>

\* lines 143-165: where the new positions of object o go.
WriteKind(o, ask, keys) ==
    IF ask THEN "shape_key" ELSE IF keys # <<>> THEN "basis" ELSE "co"

\* lines 145-150: the shape keys of o after the new one is added.
AddShapeKey(keys, name) ==
    Append(IF keys = <<>> THEN <<"Basis">> ELSE keys, name)

\* The vertex coordinates of a mesh before the run.
Original(m) == <<"original", m>>

\* obj.data.vertices now: what the last write to the mesh's coordinates
\* left (a new shape key leaves them alone), or the original coordinates.
Vertices(m, log) ==
    LET base == {i \in 1..Len(log) : log[i].kind # "shape_key"}
    IN IF base = {} THEN Original(m)
       ELSE log[CHOOSE i \in base : \A j \in base : j <= i].pts

\* line 130 read without regard to earlier writes: the original coordinates.
ReadPointsOriginal(o, log) == <<"in_dst_space", o, Original(Data(o))>>
\* line 130: the vertices of obj.data, through obj_to_dst.
ReadPoints(o, log) == <<"in_dst_space", o, Vertices(Data(o), log)>>

\* lines 133-141: the new positions of o, from its points in destination
\* space, the source points and the weights, back in o's local space.
NewPoints(o, pts, src, w) == <<"deformed", o, pts, src, w>>

\* lines 128-165: one target is deformed and written.
DeformObject ==
    /\ pc = "loop"
    /\ \E o \in NextObjects :
          /\ IsTarget(o, dst_is_shape_key)
          /\ MatrixInvertible(o)
          /\ objs' = Append(objs, o)
          /\ mesh_pts' = ReadPoints(o, written[Data(o)])
          /\ new_mesh_pts' = NewPoints(o, mesh_pts', src_pts, weights)
          /\ shape_keys' =
                IF as_shape_key
                THEN [shape_keys EXCEPT ![Data(o)] =
                        AddShapeKey(@, RetargetKeyName(dst_is_shape_key))]
                ELSE shape_keys
          /\ written' =
                [written EXCEPT ![Data(o)] =
                    Append(@, [kind |-> WriteKind(o, as_shape_key, shape_keys[Data(o)]),
                               obj |-> o,
                               pts |-> new_mesh_pts'])]
    /\ calls' = [calls EXCEPT !.get_mesh_points = @ + 1,
                              !.get_distance_matrix = @ + 1]
    /\ UNCHANGED <<pc, result, report, dst_is_shape_key, num_vertices,
                   num_dst_vertices, only_selection, select, high_quality,
                   mask, num_masked, stride, function, radius, rbf_kernel,
                   scale, src_pts, dst_pts, weights, as_shape_key>>

\* line 167: the selection is exhausted.
Finish ==
    /\ pc = "loop"
    /\ Len(objs) >= 1
    /\ result' = "FINISHED"
    /\ pc' = "done"
    /\ UNCHANGED <<report, dst_is_shape_key, num_vertices, num_dst_vertices,
                   only_selection, select, high_quality, mask, num_masked,
                   stride, function, radius, rbf_kernel, scale, src_pts,
                   dst_pts, weights, objs, as_shape_key, shape_keys, written,
                   mesh_pts, new_mesh_pts, calls>>

Next ==
    \/ Resolve
    \/ FailNoVertices
    \/ FailTopology
    \/ ComputeStride
    \/ FailNoSelection
    \/ SamplePoints
    \/ SolveOk
    \/ SolveFails
    \/ SkipObject
    \/ InvertRaises
    \/ DeformObject
    \/ Finish

Spec == Init /\ [][Next]_vars

(***************************************************************************)
(* The numerical path of execute(), lines 114-141, on meshes given by      *)
(* their coordinates: one solve, then one target deformed.  Coordinates    *)
(* and kernel values are in tenths, weights are whole numbers, radii are   *)
(* in thousandths.                                                         *)
(***************************************************************************)
MaxPts == 5
MaxCoef == 2

\* The corners of the unit cube, in vertex order.
CornerSeq ==
    << <<0, 0, 0>>, <<10, 0, 0>>, <<0, 10, 0>>, <<10, 10, 0>>,
       <<0, 0, 10>>, <<10, 0, 10>>, <<0, 10, 10>>, <<10, 10, 10>> >>
Corners == Range(CornerSeq)

\* Source meshes: 4 to MaxPts corners in vertex order, the first three
\* corners among them.
PointsOf(S) == LET In(p) == p \in S IN SelectSeq(CornerSeq, In)
SrcMeshes ==
    {PointsOf(S) : S \in {T \in SUBSET Corners :
                            /\ {CornerSeq[1], CornerSeq[2], CornerSeq[3]} \subseteq T
                            /\ Cardinality(T) \in 4..MaxPts}}

\* The functions whose kernels need no exponential or logarithm.
ComputedFunctions == {"LINEAR", "BIHARMONIC", "INV_BIHARMONIC", "C2"}

\* Where the target's world matrix puts it relative to the destination's.
Offsets == {<<0, 0, 0>>, <<10, 0, 0>>}

\* Points of a target other than the source's own, in destination space.
OtherPoints == {<<5, 5, 5>>, <<10, 10, 10>>, <<20, 0, 10>>}

RECURSIVE ISqrtIn(_, _, _)
ISqrtIn(n, lo, hi) ==
    IF lo >= hi THEN lo
    ELSE LET mid == (lo + hi + 1) \div 2
         IN IF mid * mid <= n THEN ISqrtIn(n, mid, hi) ELSE ISqrtIn(n, lo, mid - 1)
\* The integer square root.
ISqrt(n) == ISqrtIn(n, 0, 46340)

\* (d / r)^2 in hundredths, for a squared distance d2 in hundredths and a
\* radius r in thousandths.
Ratio2(d2, r) == (d2 * 1000000) \div (r * r)

\* rbf.linear: d
linear(d2, r) == ISqrt(d2)
\* rbf.multi_quadratic_biharmonic: sqrt(1 + d^2), d the distance over the radius
multi_quadratic_biharmonic(d2, r) == ISqrt(100 + Ratio2(d2, r))
\* rbf.inv_multi_quadratic_biharmonic: 1 / sqrt(1 + d^2)
inv_multi_quadratic_biharmonic(d2, r) == 100 \div ISqrt(100 + Ratio2(d2, r))
\* rbf.beckert_wendland_c2_basis: (1 - d)^4 (4 d + 1) below d = 1, 0 from there
beckert_wendland_c2_basis(d2, r) ==
    LET a == ISqrt(Ratio2(d2, r))
    IN IF a >= 10 THEN 0 ELSE (((10 - a) ^ 4) * (4 * a + 10)) \div 10000

Kernel(k, d2, r) ==
    CASE k = "linear" -> linear(d2, r)
      [] k = "multi_quadratic_biharmonic" -> multi_quadratic_biharmonic(d2, r)
      [] k = "inv_multi_quadratic_biharmonic" -> inv_multi_quadratic_biharmonic(d2, r)
      [] k = "beckert_wendland_c2_basis" -> beckert_wendland_c2_basis(d2, r)

Dist2(a, b) ==
    (a[1] - b[1]) * (a[1] - b[1]) + (a[2] - b[2]) * (a[2] - b[2])
        + (a[3] - b[3]) * (a[3] - b[3])

\* rbf.get_distance_matrix(query, ref, kernel, radius).  (Appending the
\* empty sequence makes a function a sequence of computed values.)
get_distance_matrix(query, ref, k, r) ==
    [i \in 1..Len(query) |->
        [j \in 1..Len(ref) |-> Kernel(k, Dist2(query[i], ref[j]), r)] \o <<>>]
        \o <<>>

RECURSIVE DotFrom(_, _, _)
DotFrom(a, b, k) == IF k > Len(a) THEN 0 ELSE a[k] * b[k] + DotFrom(a, b, k + 1)
Dot(a, b) == DotFrom(a, b, 1)

RECURSIVE ColumnDot(_, _, _, _)
ColumnDot(row, m, c, k) ==
    IF k > Len(row) THEN 0 ELSE row[k] * m[k][c] + ColumnDot(row, m, c, k + 1)

\* line 136: np.dot(h, weights)
MatMul(h, w) ==
    [i \in 1..Len(h) |-> <<ColumnDot(h[i], w, 1, 1), ColumnDot(h[i], w, 2, 1),
                           ColumnDot(h[i], w, 3, 1)>>] \o <<>>

\* lines 134-135: h = [dist | identity | mesh_pts], identity a column of ones.
HRowsPointsFirst(dist, pts) ==
    [i \in 1..Len(pts) |-> dist[i] \o pts[i] \o <<10>>] \o <<>>
HRows(dist, pts) == [i \in 1..Len(pts) |-> dist[i] \o <<10>> \o pts[i]] \o <<>>

\* lines 133-136: the new positions, in destination space.
Deform(pts, src, w, k, r) ==
    MatMul(HRows(get_distance_matrix(pts, src, k, r), pts), w)

\* lines 128-130 and 139-141, for world matrices that differ by a translation
\* t: obj_to_dst adds t, dst_to_obj takes it away again.
Translate(pts, t) ==
    [i \in 1..Len(pts) |->
        <<pts[i][1] + t[1], pts[i][2] + t[2], pts[i][3] + t[3]>>] \o <<>>
Minus(t) == <<0 - t[1], 0 - t[2], 0 - t[3]>>

\* line 130: the target's points in destination space.
ToDstSpace(local, t) == Translate(local, t)

\* lines 139-141: the new points back in the target's space.
ToLocalSpaceUntransformed(new, t) == new
ToLocalSpace(new, t) == Translate(new, Minus(t))

\* rbf.get_weight_matrix(src, dst, kernel, radius): the weights [w; c] with
\*     [ K  P ] [w]   [dst]
\*     [ Pt 0 ] [c] = [ 0 ],     P = [ones | src],
\* searched column by column among whole-number weights.
RbfCoefs(src) ==
    {w \in [1..Len(src) -> -1..1] :
        /\ Dot([j \in 1..Len(src) |-> 10] \o <<>>, w) = 0
        /\ \A a \in 1..3 : Dot([j \in 1..Len(src) |-> src[j][a]] \o <<>>, w) = 0}
AffineCoefs == [1..4 -> 0..MaxCoef]
AffineRow(p, c) == 10 * c[1] + p[1] * c[2] + p[2] * c[3] + p[3] * c[4]
\* dst[.][col] - K w, what the affine part has to give at each point.
Residual(dst, K, w, col) ==
    [i \in 1..Len(dst) |-> dst[i][col] - Dot(K[i], w)] \o <<>>
AffineSolutions(src, res) ==
    {a \in AffineCoefs : \A i \in 1..Len(src) : AffineRow(src[i], a) = res[i]}
ColumnSolutions(src, dst, K, W, col) ==
    UNION {{<<w, c>> : c \in AffineSolutions(src, Residual(dst, K, w, col))} :
            w \in W}
Stack(n, s1, s2, s3) ==
    [k \in 1..(n + 4) |->
        IF k <= n THEN <<s1[1][k], s2[1][k], s3[1][k]>>
        ELSE <<s1[2][k - n], s2[2][k - n], s3[2][k - n]>>] \o <<>>
Solutions(src, dst, k, r) ==
    UNION {{Stack(Len(src), s1, s2, s3) :
                s1 \in ColumnSolutions(src, dst, K, W, 1),
                s2 \in ColumnSolutions(src, dst, K, W, 2),
                s3 \in ColumnSolutions(src, dst, K, W, 3)} :
            K \in {get_distance_matrix(src, src, k, r)}, W \in {RbfCoefs(src)}}

\* The system is singular: the homogeneous system has a solution other than 0.
Singular(src, k, r) ==
    \E K \in {get_distance_matrix(src, src, k, r)} :
       \E w \in RbfCoefs(src) :
          \E Kw \in {[i \in 1..Len(src) |-> Dot(K[i], w)] \o <<>>} :
             \E c \in [1..4 -> -1..1] :
                /\ (\E j \in 1..Len(src) : w[j] # 0) \/ (\E a \in 1..4 : c[a] # 0)
                /\ \A i \in 1..Len(src) : Kw[i] + AffineRow(src[i], c) = 0

\* Affine maps [c]: the identity, a uniform scale by 2, a shift along x.
AffineMaps ==
    { << <<0, 0, 0>>, <<1, 0, 0>>, <<0, 1, 0>>, <<0, 0, 1>> >>,
      << <<0, 0, 0>>, <<2, 0, 0>>, <<0, 2, 0>>, <<0, 0, 2>> >>,
      << <<1, 0, 0>>, <<1, 0, 0>>, <<0, 1, 0>>, <<0, 0, 1>> >> }

\* Destination meshes of a source mesh: the source moved by an affine map
\* and by radial terms with whole-number coefficients along x.
DstMeshes(src, k, r) ==
    UNION {{MatMul(top, [j \in 1..(Len(src) + 4) |->
                            IF j <= Len(src) THEN <<w[j], 0, 0>>
                            ELSE A[j - Len(src)]] \o <<>>) :
                w \in RbfCoefs(src), A \in AffineMaps} :
            top \in {[i \in 1..Len(src) |->
                        get_distance_matrix(src, src, k, r)[i] \o <<10>> \o src[i]]
                            \o <<>>}}

InitRBF == pc = "rbf_enter" /\ Fresh

\* lines 114-116: the kernel of the function id and the two point sets.
RbfSamplePoints ==
    /\ pc = "rbf_enter"
    /\ \E f \in ComputedFunctions, r \in RadiusValues, src \in SrcMeshes :
          LET ks == rbf_kernels_get(f)
          IN /\ function' = f
             /\ radius' = r
             /\ rbf_kernel' = ks[1]
             /\ scale' = ks[2]
             /\ src_pts' = src
             /\ dst_pts' \in DstMeshes(src, ks[1], EffectiveRadius(r, ks[2]))
    /\ calls' = [calls EXCEPT !.get_mesh_points = @ + 2]
    /\ pc' = "rbf_solve"
    /\ UNCHANGED <<result, report, dst_is_shape_key, num_vertices,
                   num_dst_vertices, only_selection, select, high_quality,
                   mask, num_masked, stride, weights, objs, as_shape_key,
                   shape_keys, written, mesh_pts, new_mesh_pts>>

\* lines 117-118
RbfSolve ==
    /\ pc = "rbf_solve"
    /\ weights' \in Solutions(src_pts, dst_pts, rbf_kernel,
                              EffectiveRadius(radius, scale))
    /\ calls' = [calls EXCEPT !.get_weight_matrix = @ + 1]
    /\ pc' = "rbf_loop"
    /\ UNCHANGED <<result, report, dst_is_shape_key, num_vertices,
                   num_dst_vertices, only_selection, select, high_quality,
                   mask, num_masked, stride, function, radius, rbf_kernel,
                   scale, src_pts, dst_pts, objs, as_shape_key, shape_keys,
                   written, mesh_pts, new_mesh_pts>>

\* lines 117-122: the solve fails on a singular system.
RbfSolveFails ==
    /\ pc = "rbf_solve"
    /\ Singular(src_pts, rbf_kernel, EffectiveRadius(radius, scale))
    /\ calls' = [calls EXCEPT !.get_weight_matrix = @ + 1]
    /\ report' = "Failed to retarget. Try a different function or radius."
    /\ result' = "CANCELLED"
    /\ pc' = "rbf_done"
    /\ UNCHANGED <<dst_is_shape_key, num_vertices, num_dst_vertices,
                   only_selection, select, high_quality, mask, num_masked,
                   stride, function, radius, rbf_kernel, scale, src_pts,
                   dst_pts, weights, objs, as_shape_key, shape_keys, written,
                   mesh_pts, new_mesh_pts>>

\* lines 128-141 and 167: the target "t1", whose world matrix is the
\* destination's moved by t, is deformed.  objs holds the target and t.
RbfDeformObject ==
    /\ pc = "rbf_loop"
    /\ \E t \in Offsets, q \in {src_pts} \cup {<<p>> : p \in OtherPoints} :
          LET local == Translate(q, Minus(t))
              pts == ToDstSpace(local, t)
              new == Deform(pts, src_pts, weights, rbf_kernel,
                            EffectiveRadius(radius, scale))
          IN /\ objs' = <<"t1", t>>
             /\ mesh_pts' = pts
             /\ new_mesh_pts' = ToLocalSpace(new, t)
    /\ calls' = [calls EXCEPT !.get_mesh_points = @ + 1,
                              !.get_distance_matrix = @ + 1]
    /\ result' = "FINISHED"
    /\ pc' = "rbf_done"
    /\ UNCHANGED <<report, dst_is_shape_key, num_vertices, num_dst_vertices,
                   only_selection, select, high_quality, mask, num_masked,
                   stride, function, radius, rbf_kernel, scale, src_pts,
                   dst_pts, weights, as_shape_key, shape_keys, written>>

NextRBF ==
    \/ RbfSamplePoints
    \/ RbfSolve
    \/ RbfSolveFails
    \/ RbfDeformObject

SpecRBF == InitRBF /\ [][NextRBF]_vars

(***************************************************************************)
(* Properties of execute().                                                *)
(***************************************************************************)
MsgNoVertices == "Source mesh has no vertices."
MsgTopology == "Source and destination meshes must have equal number of vertices."
MsgNoSelection == "Source mesh has no vertices selected."
MsgSolve == "Failed to retarget. Try a different function or radius."

Entered == pc # "enter"
Returned == pc = "done"
NothingSampled == calls.get_mesh_points = 0 /\ src_pts = <<>> /\ dst_pts = <<>>
NothingSolved ==
    /\ calls.get_weight_matrix = 0
    /\ calls.get_distance_matrix = 0
    /\ weights = <<"none">>
NothingWritten ==
    /\ \A m \in Datablocks : written[m] = <<>>
    /\ \A m \in Datablocks : shape_keys[m] = InitialShapeKeys(m)

\* C1 as stated: whenever the vertex counts differ, execute() reports
\* MismatchedTopology and returns CANCELLED, having sampled, solved and
\* written nothing.
C1_MismatchReportsTopology ==
    (Entered /\ num_vertices # num_dst_vertices) =>
        /\ NothingSampled /\ NothingSolved /\ NothingWritten
        /\ Returned => (result = "CANCELLED" /\ report = MsgTopology)

\* C1 amended: whenever the vertex counts differ, execute() returns CANCELLED
\* with an ERROR report, having sampled, solved and written nothing; the
\* report is MismatchedTopology when the source has vertices and EmptyInput
\* (no vertices) when it has none.
C1_MismatchCancelsImmediately ==
    (Entered /\ num_vertices # num_dst_vertices) =>
        /\ NothingSampled /\ NothingSolved /\ NothingWritten
        /\ pc \in {"check", "done"}
        /\ Returned =>
              /\ result = "CANCELLED"
              /\ report = (IF num_vertices = 0 THEN MsgNoVertices ELSE MsgTopology)

C1_Witness ==
    /\ Returned
    /\ num_vertices > 0
    /\ num_vertices # num_dst_vertices
    /\ report = MsgTopology

EmptySelection == only_selection /\ select = {}

\* C2 as stated: with no source vertices, or with only_selection on and no
\* vertex selected, execute() ends with EmptyInput and CANCELLED, without a
\* crash, without a call of the solver and without writing.
C2_EmptyInputReported ==
    (Entered /\ (num_vertices = 0 \/ EmptySelection)) =>
        /\ result # "EXCEPTION"
        /\ NothingSolved /\ NothingWritten
        /\ Returned =>
              /\ result = "CANCELLED"
              /\ report \in {MsgNoVertices, MsgNoSelection}

\* C2 amended: with no source vertices, or with equal vertex counts,
\* only_selection on and no vertex selected, execute() ends with EmptyInput
\* and CANCELLED: the stride is computed (as 0) without a crash, nothing is
\* sampled, the solver is never called and nothing is written.  (With
\* differing counts and a non-empty source the report is MismatchedTopology.)
C2_EmptyInputWhenCountsAgree ==
    (Entered /\ (num_vertices = 0
                   \/ (EmptySelection /\ num_vertices = num_dst_vertices))) =>
        /\ result # "EXCEPTION"
        /\ pc \in {"check", "masked", "done"}
        /\ NothingSampled /\ NothingSolved /\ NothingWritten
        /\ pc = "masked" => (num_masked = 0 /\ stride = 0)
        /\ Returned =>
              /\ result = "CANCELLED"
              /\ report = (IF num_vertices = 0 THEN MsgNoVertices ELSE MsgNoSelection)

C2_Witness ==
    /\ Returned
    /\ num_vertices > 0
    /\ EmptySelection
    /\ stride = 0
    /\ report = MsgNoSelection

\* C3: an execution that ends in failure (CANCELLED, or an exception) has
\* written to no object: no positions changed, no shape key added.
C3_FailFast ==
    (Returned /\ result # "FINISHED") => NothingWritten

\* C4: a failed solve is reported and cancels the whole invocation with no
\* object written and no weights substituted; the solver is called at most
\* once per invocation, and exactly once when the loop over targets runs.
C4_SolveFailureAborts ==
    /\ calls.get_weight_matrix <= 1
    /\ report = MsgSolve =>
          /\ Returned /\ result = "CANCELLED"
          /\ weights = <<"none">>
          /\ calls.get_weight_matrix = 1
          /\ calls.get_distance_matrix = 0
          /\ NothingWritten
    /\ pc = "loop" => (calls.get_weight_matrix = 1 /\ weights[1] = "solved")

C4_Witness ==
    /\ Returned
    /\ report = MsgSolve
    /\ calls.get_weight_matrix = 1

\* C7: when the solver is reached, the stride is ceil(M / C) and the number
\* of sampled correspondence points is ceil(M / stride), M the number of
\* masked vertices and C the vertex cap.
C7_StrideAndCount ==
    pc = "solve" =>
        /\ stride = Ceil(num_masked, IF high_quality THEN 5000 ELSE 1000)
        /\ Len(src_pts) = Ceil(num_masked, stride)

\* C8: the number of correspondence points handed to the solver is at most
\* 1000, or 5000 with high_quality.
C8_VertexCap ==
    pc = "solve" => Len(src_pts) <= (IF high_quality THEN 5000 ELSE 1000)

\* The kernel and the scale (in thousandths) the spec gives each function id.
ExpectedKernel(f) ==
    IF f = "GAUSSIAN" THEN <<"gaussian", 10>>
    ELSE IF f = "PLATE" THEN <<"thin_plate", 1>>
    ELSE IF f = "BIHARMONIC" THEN <<"multi_quadratic_biharmonic", 10>>
    ELSE IF f = "INV_BIHARMONIC" THEN <<"inv_multi_quadratic_biharmonic", 10>>
    ELSE IF f = "C2" THEN <<"beckert_wendland_c2_basis", 1000>>
    ELSE <<"linear", 1000>>

\* C9: the kernel and scale in use are those of the function id, the linear
\* kernel with scale 1.0 for an id outside the table, without an error; the
\* solve is made with radius * scale.
C9_KernelDispatch ==
    pc \in {"solve", "loop"} =>
        /\ <<rbf_kernel, scale>> = ExpectedKernel(function)
        /\ result = "NONE" /\ report = "NONE"
        /\ pc = "loop" => weights = <<"solved", rbf_kernel, (radius * scale)>>

C9_Witness ==
    /\ pc = "loop"
    /\ function = "UNKNOWN"
    /\ rbf_kernel = "linear"
    /\ weights[1] = "solved"

\* C10: when the solver is reached, the source and destination point sets
\* have the same length and their i-th points were read from the same vertex
\* index, for another object as for a shape key of the source.
C10_Correspondence ==
    pc = "solve" =>
        /\ Len(src_pts) = Len(dst_pts)
        /\ \A i \in 1..Len(src_pts) : src_pts[i] = dst_pts[i]

C10_Witness ==
    /\ pc = "solve"
    /\ dst_is_shape_key
    /\ mask.on
    /\ stride > 1
    /\ Len(src_pts) > 1
    /\ Len(src_pts) < num_vertices

\* C11: the correspondence point set handed to the solver is never empty:
\* once the input checks have passed and the solver has been called, at least
\* one source point and one destination point were sampled.
C11_NonEmptyCorrespondence ==
    calls.get_weight_matrix >= 1 => (Len(src_pts) >= 1 /\ Len(dst_pts) >= 1)

\* The entries of the write log of datablock m.
Writes(m) == {written[m][i] : i \in 1..Len(written[m])}

\* C12: every target is written with the deformation of its own original
\* vertices, seen through its own world matrix, by the source points and the
\* weights of the one solve; the loop over the targets leaves the source
\* points and the weights as they were sampled and solved.  So the positions
\* written do not depend on which targets were processed before.
C12_PerTargetIndependence ==
    /\ \A m \in Datablocks : \A e \in Writes(m) :
          e.pts = NewPoints(e.obj, ReadPointsOriginal(e.obj, <<>>), src_pts, weights)
    /\ pc = "loop" =>
          /\ src_pts = SampleSrc(num_vertices, mask, stride)
          /\ weights = <<"solved", rbf_kernel, EffectiveRadius(radius, scale)>>

\* C13: the meshes of the source and destination objects and the data of
\* non-mesh objects are never written, and a run that ends FINISHED has
\* written exactly the meshes of the selected mesh objects other than the
\* source and destination objects.
C13_WritesOnlyTargets ==
    /\ written[Data("src")] = <<>>
    /\ written[Data(DstObj(dst_is_shape_key))] = <<>>
    /\ shape_keys[Data("src")] = InitialShapeKeys(Data("src"))
    /\ shape_keys[Data(DstObj(dst_is_shape_key))]
          = InitialShapeKeys(Data(DstObj(dst_is_shape_key)))
    /\ \A o \in Objects : ObjType(o) # "MESH" => written[Data(o)] = <<>>
    /\ (Returned /\ result = "FINISHED") =>
          {m \in Datablocks : written[m] # <<>>}
            = {Data(o) : o \in {x \in Range(objs) : IsTarget(x, dst_is_shape_key)}}

(***************************************************************************)
(* Properties of the numerical path.                                       *)
(***************************************************************************)
Deformed == pc = "rbf_done" /\ result = "FINISHED"
\* The world offset of the deformed target, and its vertices before the run.
TargetOffset == objs[2]
TargetVertices == Translate(mesh_pts, Minus(TargetOffset))

\* C5: with weights that solve the system, a target whose points are the
\* source correspondence points is moved onto the destination correspondence
\* points, and the deformer's rows for them are the solver's rows [K | 1 | src]
\* for the same kernel and effective radius.
C5_InterpolationExact ==
    (Deformed /\ mesh_pts = src_pts) =>
        /\ Translate(new_mesh_pts, TargetOffset) = dst_pts
        /\ \A i \in 1..Len(src_pts) :
              HRows(get_distance_matrix(mesh_pts, src_pts, rbf_kernel, radius * scale),
                    mesh_pts)[i]
                = [j \in 1..(Len(src_pts) + 4) |->
                      IF j <= Len(src_pts)
                      THEN Kernel(ExpectedKernel(function)[1],
                                  Dist2(src_pts[i], src_pts[j]),
                                  radius * ExpectedKernel(function)[2])
                      ELSE IF j = Len(src_pts) + 1 THEN 10
                      ELSE src_pts[i][j - Len(src_pts) - 1]]

C5_Witness ==
    /\ Deformed
    /\ mesh_pts = src_pts
    /\ dst_pts # src_pts
    /\ \E j \in 1..Len(src_pts) : weights[j] # <<0, 0, 0>>
    /\ TargetOffset # <<0, 0, 0>>
    /\ Translate(new_mesh_pts, TargetOffset) = dst_pts

IdentityWeights(n) ==
    [k \in 1..(n + 4) |->
        IF k = n + 2 THEN <<1, 0, 0>>
        ELSE IF k = n + 3 THEN <<0, 1, 0>>
        ELSE IF k = n + 4 THEN <<0, 0, 1>>
        ELSE <<0, 0, 0>>]

\* C6: when the destination points equal the source points and the system
\* has one solution only, the weights are zero radial coefficients with the
\* identity as affine block, and every deformed target keeps its positions.
C6_IdentityDeformation ==
    (/\ pc \in {"rbf_loop", "rbf_done"}
     /\ weights # <<"none">>
     /\ dst_pts = src_pts
     /\ ~Singular(src_pts, rbf_kernel, radius * scale)) =>
        /\ weights = IdentityWeights(Len(src_pts))
        /\ Deformed => new_mesh_pts = TargetVertices

C6_Witness ==
    /\ Deformed
    /\ dst_pts = src_pts
    /\ ~Singular(src_pts, rbf_kernel, radius * scale)
    /\ mesh_pts[1] \notin Range(src_pts)
    /\ TargetOffset # <<0, 0, 0>>
    /\ new_mesh_pts = TargetVertices

====
